---- MODULE Spec2Model ----
(***************************************************************************)
(* Model of the Gitea/GitHub MCP connector (src/src/connector.js).         *)
(*                                                                         *)
(* Text is modelled as a sequence of atoms.  An atom is either one of the  *)
(* characters the code or the shell treats specially (space, tab, single   *)
(* quote, double quote, ampersand, braces, and the separators of a URL) or *)
(* a chunk of ordinary characters.  Concatenation of text is \o.           *)
(***************************************************************************)
EXTENDS Integers, Sequences, FiniteSets

VARIABLES
  config,   \* the Configuration built by getApiConfig at startup
  server,   \* "running" | "exited": the long-lived server process
  last      \* the record of the most recent tool invocation

vars == <<config, server, last>>

----------------------------------------------------------------------------
(* Bounds *)

\* longest array a remote response carries
MaxItems == 2

----------------------------------------------------------------------------
(* Atoms *)

SP == " "
TAB == "<TAB>"
SQ == "'"
DQ == "<DQ>"
AMP == "&"
LB == "{"
RB == "}"
EQ == "="
NL == "<NL>"

RECURSIVE Join(_, _)
\* Array.prototype.join on a sequence of texts
Join(parts, sep) ==
  IF parts = <<>> THEN <<>>
  ELSE IF Len(parts) = 1 THEN parts[1]
  ELSE parts[1] \o sep \o Join(Tail(parts), sep)

\* String.prototype.includes for a single atom
Includes(s, a) == \E i \in 1..Len(s) : s[i] = a

\* String.prototype.includes for a run of atoms
IncludesSeq(s, sub) ==
  \E i \in 1..(Len(s) - Len(sub) + 1) : SubSeq(s, i, i + Len(sub) - 1) = sub

IsPrefix(p, s) == Len(p) <= Len(s) /\ SubSeq(s, 1, Len(p)) = p

----------------------------------------------------------------------------
(* JavaScript values: a tag and the text of the value *)

Undefined == [t |-> "undefined", v |-> <<>>]
Null == [t |-> "null", v |-> <<>>]
Str(s) == [t |-> "string", v |-> s]
Num(d) == [t |-> "number", v |-> <<d>>]
Bool(b) == [t |-> "boolean", v |-> <<IF b THEN "true" ELSE "false">>]

\* ToBoolean: what `x || y`, `x ? a : b` and `if (x)` test
Truthy(x) ==
  CASE x.t = "undefined" -> FALSE
    [] x.t = "null" -> FALSE
    [] x.t = "string" -> x.v # <<>>
    [] x.t = "number" -> x.v # <<"0">>
    [] x.t = "boolean" -> x.v = <<"true">>

\* x || y
OrElse(x, y) == IF Truthy(x) THEN x ELSE y

\* ToString, as a template literal `${x}` and String(x) apply it
ToString(x) ==
  CASE x.t = "undefined" -> <<"undefined">>
    [] x.t = "null" -> <<"null">>
    [] OTHER -> x.v

\* a parameter default: `name = dflt` in a destructuring pattern
Default(x, dflt) == IF x.t = "undefined" THEN dflt ELSE x

----------------------------------------------------------------------------
(* Configuration resolution *)

GitHubCom == <<"github", ".", "com">>
DefaultApiUrl == <<"https://api.">> \o GitHubCom
GiteaApiUrl == <<"https://gitea.example/api/v1">>

\* process.env as the .env file and the environment leave it
Envs ==
  { [GITEA_API_URL |-> <<>>, GITEA_TOKEN |-> <<>>, GITHUB_TOKEN |-> <<>>,
     GITEA_OWNER |-> <<>>, GITEA_REPO |-> <<>>],
    [GITEA_API_URL |-> <<>>, GITEA_TOKEN |-> <<>>, GITHUB_TOKEN |-> <<"ghp1">>,
     GITEA_OWNER |-> <<"envowner">>, GITEA_REPO |-> <<"envrepo">>],
    [GITEA_API_URL |-> GiteaApiUrl, GITEA_TOKEN |-> <<"tok1">>, GITHUB_TOKEN |-> <<"ghp1">>,
     GITEA_OWNER |-> <<>>, GITEA_REPO |-> <<>>],
    [GITEA_API_URL |-> GiteaApiUrl, GITEA_TOKEN |-> <<>>, GITHUB_TOKEN |-> <<>>,
     GITEA_OWNER |-> <<>>, GITEA_REPO |-> <<>>] }

\* what `git remote get-url origin` does: it fails, or prints a URL
GitOutcomes ==
  { [threw |-> TRUE, out |-> <<>>],
    [threw |-> FALSE, out |-> <<"git@host", ":", "acme", "/", "widget", ".", "git">>],
    [threw |-> FALSE, out |-> <<"https", ":", "/", "/">> \o GitHubCom \o <<"/", "acme", "/", "widget">>],
    [threw |-> FALSE, out |-> <<"git@host", ":", "widget", ".", "git">>] }

\* the end of the remote URL that `(?:\.git)?$` leaves to the repo group
RepoEnd(u) ==
  IF Len(u) >= 2 /\ SubSeq(u, Len(u) - 1, Len(u)) = <<".", "git">>
  THEN Len(u) - 2 ELSE Len(u)

\* the slash of `\/` between the owner and the repo groups: the last one
OwnerSlash(u) ==
  LET S == {j \in 1..Len(u) : u[j] = "/"}
  IN IF S = {} THEN 0 ELSE CHOOSE j \in S : \A k \in S : k <= j

\* the places `[/:]` can match so that `([^/]+)` reaches OwnerSlash
OwnerStarts(u) ==
  {i \in 1..(OwnerSlash(u) - 2) :
     /\ u[i] \in {"/", ":"}
     /\ \A k \in (i + 1)..(OwnerSlash(u) - 1) : u[k] # "/"}

\* remoteUrl.match(/[/:]([^/]+)\/([^/.]+)(?:\.git)?$/)
RemoteMatches(u) ==
  /\ OwnerSlash(u) > 0
  /\ OwnerStarts(u) # {}
  /\ RepoEnd(u) > OwnerSlash(u)
  /\ \A k \in (OwnerSlash(u) + 1)..RepoEnd(u) : u[k] \notin {"/", "."}

NoGitConfig == [found |-> FALSE, owner |-> <<>>, repo |-> <<>>, remoteUrl |-> <<>>]

\* detectGitConfig: null when git fails or the URL does not match
detectGitConfig(git) ==
  IF git.threw THEN NoGitConfig
  ELSE IF RemoteMatches(git.out)
  THEN LET i == CHOOSE i \in OwnerStarts(git.out) : \A k \in OwnerStarts(git.out) : i <= k
       IN [found |-> TRUE,
           owner |-> SubSeq(git.out, i + 1, OwnerSlash(git.out) - 1),
           repo |-> SubSeq(git.out, OwnerSlash(git.out) + 1, RepoEnd(git.out)),
           remoteUrl |-> git.out]
  ELSE NoGitConfig

\* a || b on two texts
TextOr(a, b) == IF a # <<>> THEN a ELSE b

getApiConfig(env, git) ==
  LET apiUrl == TextOr(env.GITEA_API_URL, DefaultApiUrl)
      gitConfig == detectGitConfig(git)
  IN [apiUrl |-> apiUrl,
      token |-> TextOr(env.GITEA_TOKEN, TextOr(env.GITHUB_TOKEN, <<>>)),
      isGitHub |-> IncludesSeq(apiUrl, GitHubCom)
                    \/ (gitConfig.found /\ IncludesSeq(gitConfig.remoteUrl, GitHubCom)),
      owner |-> TextOr(gitConfig.owner, TextOr(env.GITEA_OWNER, <<>>)),
      repo |-> TextOr(gitConfig.repo, TextOr(env.GITEA_REPO, <<>>))]

Configs == {getApiConfig(e, g) : e \in Envs, g \in GitOutcomes}

----------------------------------------------------------------------------
(* JSON *)

\* the fields of a remote object that the handlers read
Keys ==
  <<"message", "number", "title", "state", "name", "full_name", "private",
    "language", "description", "stargazers_count", "forks_count", "html_url",
    "default_branch", "created_at", "updated_at">>

KeySet == {Keys[i] : i \in 1..Len(Keys)}

EmptyObj == [k \in KeySet |-> Undefined]

RECURSIVE JsonEscape(_)
\* the escapes JSON.stringify applies inside a string
JsonEscape(s) ==
  IF s = <<>> THEN <<>>
  ELSE (CASE Head(s) = TAB -> <<"\\t">>
          [] Head(s) = NL -> <<"\\n">>
          [] Head(s) = DQ -> <<"\\", DQ>>
          [] OTHER -> <<Head(s)>>) \o JsonEscape(Tail(s))

\* JSON.stringify of a primitive
JsonValue(x) ==
  IF x.t = "string" THEN <<DQ>> \o JsonEscape(x.v) \o <<DQ>> ELSE ToString(x)

RECURSIVE JsonMembers(_, _)
\* the members of an object, in order; a member that is undefined is left out.
\* fields is a sequence of [k |-> key, x |-> value]; colon is ":" or ": "
JsonMembers(fields, colon) ==
  IF fields = <<>> THEN <<>>
  ELSE IF Head(fields).x.t = "undefined" THEN JsonMembers(Tail(fields), colon)
  ELSE <<(<<DQ, Head(fields).k, DQ>> \o colon \o JsonValue(Head(fields).x))>>
       \o JsonMembers(Tail(fields), colon)

\* JSON.stringify(data) of a flat object
JsonStringify(fields) ==
  <<LB>> \o Join(JsonMembers(fields, <<":">>), <<",">>) \o <<RB>>

\* the fields of a parsed remote object, in the order of Keys
ObjFields(o) == [i \in 1..Len(Keys) |-> [k |-> Keys[i], x |-> o[Keys[i]]]]

\* JSON.stringify(o, null, 2) of a flat object, at the given indentation
PrettyFields(fields, indent) ==
  LET ms == JsonMembers(fields, <<":", SP>>)
  IN IF ms = <<>> THEN <<LB, RB>>
     ELSE <<LB, NL>> \o indent \o <<SP, SP>>
          \o Join(ms, <<",", NL>> \o indent \o <<SP, SP>>)
          \o <<NL>> \o indent \o <<RB>>

PrettyObj(o, indent) == PrettyFields(ObjFields(o), indent)

\* a parsed response body: null, an object, or an array of objects
JNull == [kind |-> "null", obj |-> EmptyObj, items |-> <<>>]
JObj(o) == [kind |-> "object", obj |-> o, items |-> <<>>]
JArr(xs) == [kind |-> "array", obj |-> EmptyObj, items |-> xs]

\* JSON.stringify(r, null, 2)
JsonPretty(r) ==
  CASE r.kind = "null" -> <<"null">>
    [] r.kind = "object" -> PrettyObj(r.obj, <<>>)
    [] r.kind = "array" ->
         IF r.items = <<>> THEN <<"[", "]">>
         ELSE <<"[", NL, SP, SP>>
              \o Join([i \in 1..Len(r.items) |-> PrettyObj(r.items[i], <<SP, SP>>)],
                      <<",", NL, SP, SP>>)
              \o <<NL, "]">>

\* JSON.stringify(r)
JsonCompact(r) ==
  CASE r.kind = "null" -> <<"null">>
    [] r.kind = "object" -> JsonStringify(ObjFields(r.obj))
    [] r.kind = "array" ->
         <<"[">> \o Join([i \in 1..Len(r.items) |-> JsonStringify(ObjFields(r.items[i]))],
                         <<",">>) \o <<"]">>

----------------------------------------------------------------------------
(* The remote *)

RepoObj ==
  [EmptyObj EXCEPT !["full_name"] = Str(<<"acme/widget">>),
                   !["private"] = Bool(TRUE),
                   !["language"] = Null,
                   !["stargazers_count"] = Num("0"),
                   !["forks_count"] = Num("3"),
                   !["html_url"] = Str(<<"https://x/widget">>),
                   !["name"] = Str(<<"widget">>)]

IssueObj ==
  [EmptyObj EXCEPT !["number"] = Num("7"),
                   !["title"] = Str(<<"Bug">>),
                   !["state"] = Str(<<"open">>),
                   !["html_url"] = Str(<<"https://x/7">>),
                   !["name"] = Str(<<"main">>)]

ErrObj == [EmptyObj EXCEPT !["message"] = Str(<<"Not", SP, "Found">>)]
EmptyMsgObj == [EmptyObj EXCEPT !["message"] = Str(<<>>), !["name"] = Str(<<>>)]

ItemObjs == {RepoObj, IssueObj, EmptyMsgObj}
TopObjs == {RepoObj, IssueObj, ErrObj, EmptyMsgObj, EmptyObj}

Arrays == UNION {[1..n -> ItemObjs] : n \in 0..MaxItems}

Responses == {JNull} \cup {JObj(o) : o \in TopObjs} \cup {JArr(xs) : xs \in Arrays}

\* what running the request command comes to: the process fails (a timeout, a
\* refused connection, a non-zero exit), prints something that is not JSON, or
\* prints a JSON document
Worlds ==
  {[status |-> "failed", value |-> JNull], [status |-> "garbage", value |-> JNull]}
  \cup {[status |-> "json", value |-> r] : r \in Responses}

----------------------------------------------------------------------------
(* The request command: execSync hands the command line to /bin/sh, which  *)
(* splits it into commands and words and runs curl.                        *)

ShInit ==
  [mode |-> "plain", word |-> <<>>, inword |-> FALSE, words |-> <<>>,
   cmds |-> <<>>, err |-> FALSE]

ShEndWord(st) ==
  IF st.inword
  THEN [st EXCEPT !.words = Append(@, st.word), !.word = <<>>, !.inword = FALSE]
  ELSE st

\* `&` ends a command and runs it in the background; with no command before
\* it the line is a syntax error
ShEndCmd(st) ==
  IF st.words = <<>> THEN [st EXCEPT !.err = TRUE]
  ELSE [st EXCEPT !.cmds = Append(@, st.words), !.words = <<>>]

\* one character of the command line
ShChar(st, c) ==
  IF st.err THEN st
  ELSE CASE st.mode = "sq" ->
              IF c = SQ THEN [st EXCEPT !.mode = "plain"]
              ELSE [st EXCEPT !.word = Append(@, c)]
         [] st.mode = "dq" ->
              IF c = DQ THEN [st EXCEPT !.mode = "plain"]
              ELSE [st EXCEPT !.word = Append(@, c)]
         [] OTHER ->
              CASE c = SQ -> [st EXCEPT !.mode = "sq", !.inword = TRUE]
                [] c = DQ -> [st EXCEPT !.mode = "dq", !.inword = TRUE]
                [] c \in {SP, TAB} -> ShEndWord(st)
                [] c = AMP -> ShEndCmd(ShEndWord(st))
                [] OTHER -> [st EXCEPT !.word = Append(@, c), !.inword = TRUE]

RECURSIVE ShRun(_, _, _)
ShRun(cmd, i, st) ==
  IF i > Len(cmd) THEN st
  ELSE LET nx == ShChar(st, cmd[i])
       IN IF nx.err THEN nx ELSE ShRun(cmd, i + 1, nx)

\* the commands of a command line, each a sequence of words; an unterminated
\* quoted string is a syntax error, and then nothing runs
ShEnd(st) ==
  IF st.err \/ st.mode # "plain" THEN [err |-> TRUE, cmds |-> <<>>]
  ELSE [err |-> FALSE,
        cmds |-> IF st.inword \/ st.words # <<>>
                 THEN Append(st.cmds, IF st.inword THEN Append(st.words, st.word)
                                      ELSE st.words)
                 ELSE st.cmds]

Sh(cmd) == ShEnd(ShRun(cmd, 1, ShInit))

CurlInit == [method |-> <<"GET">>, headers |-> <<>>, data |-> <<>>, urls |-> <<>>]

RECURSIVE CurlArgs(_, _, _)
\* curl's reading of its arguments: -X, -H, -d and --max-time take the next
\* word, -s takes none, every other word is a URL
CurlArgs(ws, i, st) ==
  IF i > Len(ws) THEN st
  ELSE CASE ws[i] = <<"-s">> -> CurlArgs(ws, i + 1, st)
         [] ws[i] = <<"--max-time">> -> CurlArgs(ws, i + 2, st)
         [] ws[i] = <<"-X">> /\ i < Len(ws) ->
              CurlArgs(ws, i + 2, [st EXCEPT !.method = ws[i + 1]])
         [] ws[i] = <<"-H">> /\ i < Len(ws) ->
              CurlArgs(ws, i + 2, [st EXCEPT !.headers = Append(@, ws[i + 1])])
         [] ws[i] = <<"-d">> /\ i < Len(ws) ->
              CurlArgs(ws, i + 2, [st EXCEPT !.data = Append(@, ws[i + 1])])
         [] ws[i] \in {<<"-X">>, <<"-H">>, <<"-d">>} -> CurlArgs(ws, i + 1, st)
         [] OTHER -> CurlArgs(ws, i + 1, [st EXCEPT !.urls = Append(@, ws[i])])

\* the HTTP requests one curl command sends: one for each URL
CurlSends(st) ==
  [i \in 1..Len(st.urls) |->
     [method |-> st.method, url |-> st.urls[i], headers |-> st.headers,
      data |-> Join(st.data, <<AMP>>)]]

CurlRequests(ws) == CurlSends(CurlArgs(ws, 2, CurlInit))

RECURSIVE WireOf(_)
WireOf(cmds) ==
  IF cmds = <<>> THEN <<>>
  ELSE (IF Head(cmds)[1] = <<"curl">> THEN CurlRequests(Head(cmds)) ELSE <<>>)
       \o WireOf(Tail(cmds))

\* .map((a) => (a.includes(" ") || a.includes("{") ? `'${a}'` : a))
QuoteArg(a) ==
  IF Includes(a, SP) \/ Includes(a, LB) THEN <<SQ>> \o a \o <<SQ>> ELSE a

NoData == <<>>
GET == <<"GET">>
POST == <<"POST">>

\* the arguments curlRequest collects
CurlArgv(method, url, data, token, isGitHub) ==
  <<(<<"curl">>), <<"-s">>, <<"-X">>, method, <<"--max-time">>, <<"30">>,
    <<"-H">>, <<"Accept:", SP, "application/json">>,
    <<"-H">>, <<"Content-Type:", SP, "application/json">>>>
  \o (IF token # <<>>
      THEN << <<"-H">>,
              <<"Authorization:", SP>>
              \o (IF isGitHub THEN <<"Bearer", SP>> ELSE <<"token", SP>>) \o token >>
      ELSE <<>>)
  \o (IF data # NoData THEN << <<"-d">>, JsonStringify(data) >> ELSE <<>>)
  \o << url >>

\* the command line: the arguments, quoted, joined by spaces
QuoteAll(args) == [i \in 1..Len(args) |-> QuoteArg(args[i])]

CommandLine(method, url, data, token, isGitHub) ==
  Join(QuoteAll(CurlArgv(method, url, data, token, isGitHub)), <<SP>>)

ErrCommandFailed == <<"Command", SP, "failed">>
ErrJsonParse == <<"Unexpected", SP, "token">>

\* a variant that swallows a failure of the command or of the parse and
\* returns null in place of the body
ExecOrNull(call, sh, world) ==
  [call |-> call,
   syntax |-> sh.err,
   wire |-> WireOf(sh.cmds),
   threw |-> FALSE,
   error |-> <<>>,
   value |-> IF sh.err \/ world.status # "json" THEN JNull ELSE world.value]

\* curlRequest: the command line it runs, the requests that sends, and the
\* parsed body it returns or the error it throws
\* execSync(cmd) and JSON.parse(result): sh is what the shell makes of the
\* command line.  A syntax error or a failing process makes execSync throw;
\* output that is not JSON makes JSON.parse throw
ExecAndParse(call, sh, world) ==
  [call |-> call,
   syntax |-> sh.err,
   wire |-> WireOf(sh.cmds),
   threw |-> sh.err \/ world.status # "json",
   error |-> IF sh.err \/ world.status = "failed" THEN ErrCommandFailed ELSE ErrJsonParse,
   value |-> world.value]

\* curlRequest: the requests it sends, and the parsed body it returns or the
\* error it throws
curlRequest(method, url, data, token, isGitHub, world) ==
  ExecAndParse([method |-> method, url |-> url, data |-> data, token |-> token,
                isGitHub |-> isGitHub],
               Sh(CommandLine(method, url, data, token, isGitHub)),
               world)

----------------------------------------------------------------------------
(* runConnector: apiCall and the tool handlers *)

RECURSIVE QueryPairs(_)
\* the pairs URLSearchParams holds: a null or undefined parameter is skipped
QueryPairs(params) ==
  IF params = <<>> THEN <<>>
  ELSE IF Head(params).x.t \in {"undefined", "null"} THEN QueryPairs(Tail(params))
  ELSE <<(<<Head(params).k, EQ>> \o ToString(Head(params).x))>>
       \o QueryPairs(Tail(params))

NoParams == <<>>

\* the URL apiCall builds
WithQuery(url, qs) == url \o (IF qs # <<>> THEN <<"?">> \o qs ELSE <<>>)

ApiUrl(cfg, endpoint, params) ==
  WithQuery(cfg.apiUrl \o endpoint, Join(QueryPairs(params), <<AMP>>))

apiCall(cfg, method, endpoint, data, params, world) ==
  curlRequest(method, ApiUrl(cfg, endpoint, params), data, cfg.token, cfg.isGitHub, world)

\* what a handler comes to: a result it returns or an error it throws, and the
\* requests it made on the way
Returned(text, isError, reqs) ==
  [threw |-> FALSE, error |-> <<>>, isError |-> isError, text |-> text, reqs |-> reqs]
Thrown(error, reqs) ==
  [threw |-> TRUE, error |-> error, isError |-> FALSE, text |-> <<>>, reqs |-> reqs]

\* the TypeError of reading a property of null
ErrTypeError(prop) ==
  <<"Cannot", SP, "read", SP, "properties", SP, "of", SP, "null", SP, "(reading", SP,
    SQ, prop, SQ, ")">>

Digit == <<"0", "1", "2", "3", "4", "5", "6", "7", "8", "9">>

RECURSIVE NumText(_)
\* a non-negative integer, in decimal
NumText(n) ==
  IF n < 10 THEN <<Digit[n + 1]>> ELSE NumText(n \div 10) \o <<Digit[(n % 10) + 1]>>

\* a variant that prints r.message alone, without the fallback to the body
MessageOnly(r) == ToString(r.obj["message"])

\* r.message || JSON.stringify(r), as a template literal prints it
MessageOrBody(r) ==
  ToString(OrElse(r.obj["message"], Str(JsonCompact(r))))

NoOrgOrToken ==
  <<"Error:", SP, "No", SP, "org", SP, "specified", SP, "and", SP, "no", SP,
    "auth", SP, "token.", SP, "Provide", SP, "an", SP, "org", SP, "name", SP, "or",
    SP, "set", SP, "GITEA_TOKEN.">>

\* one repository of the listing
RepoLines(r, i) ==
  Join(<< NumText(i) \o <<".", SP>> \o ToString(r["full_name"]) \o <<SP, "[">>
            \o (IF Truthy(r["private"]) THEN <<"Private">> ELSE <<"Public">>) \o <<"]">>,
          <<SP, SP, SP, "Language:", SP>> \o ToString(OrElse(r["language"], Str(<<"N/A">>)))
            \o <<SP, "|", SP, "Stars:", SP>> \o ToString(OrElse(r["stargazers_count"], Num("0")))
            \o <<SP, "|", SP, "Forks:", SP>> \o ToString(OrElse(r["forks_count"], Num("0"))),
          <<SP, SP, SP, "Description:", SP>>
            \o ToString(OrElse(r["description"], Str(<<"No", SP, "description">>))),
          <<SP, SP, SP, "URL:", SP>> \o ToString(r["html_url"]),
          <<SP, SP, SP, "Default", SP, "Branch:", SP>>
            \o ToString(OrElse(r["default_branch"], Str(<<"N/A">>))),
          <<SP, SP, SP, "Created:", SP>> \o ToString(OrElse(r["created_at"], Str(<<"N/A">>))),
          <<SP, SP, SP, "Updated:", SP>> \o ToString(OrElse(r["updated_at"], Str(<<"N/A">>))) >>,
       <<NL>>)

NoRepositories == <<"No", SP, "repositories", SP, "found.">>
NoIssues == <<"No", SP, "issues", SP, "found.">>
NoBranches == <<"No", SP, "branches", SP, "found.">>

FoundPrefix(n) == <<"Found", SP>> \o NumText(n) \o <<SP, "repositories:">>

RepoList(repos) == Join([i \in 1..Len(repos) |-> RepoLines(repos[i], i)], <<NL, NL>>)

\* a variant whose fallback guards the formatted list alone:
\* formatted || "No repositories found."
ListReposTextOr(repos) == TextOr(RepoList(repos), NoRepositories)

\* `Found ${repos.length} repositories:\n\n${formatted}` || "No repositories found."
ListReposText(repos) ==
  TextOr(FoundPrefix(Len(repos)) \o <<NL, NL>> \o RepoList(repos), NoRepositories)

\* list_repos from the response on
ListReposResult(rq) ==
  IF rq.threw THEN Thrown(rq.error, <<rq>>)
  ELSE IF rq.value.kind = "null" THEN Thrown(ErrTypeError("message"), <<rq>>)
  ELSE IF rq.value.kind # "array"
  THEN Returned(<<"API", SP, "Error:", SP>> \o MessageOrBody(rq.value), TRUE, <<rq>>)
  ELSE Returned(ListReposText(rq.value.items), FALSE, <<rq>>)

\* a variant that asks for an organization whatever the token is
ListReposOfOrgOnly(cfg, targetOrg, page, per_page, world) ==
  IF ~Truthy(targetOrg)
  THEN Returned(NoOrgOrToken, TRUE, <<>>)
  ELSE ListReposResult(
         apiCall(cfg, GET, <<"/orgs/">> \o ToString(targetOrg) \o <<"/repos">>, NoData,
                 << [k |-> "page", x |-> page], [k |-> "per_page", x |-> per_page],
                    [k |-> "limit", x |-> per_page], [k |-> "type", x |-> Str(<<"all">>)] >>,
                 world))

\* list_repos once the organization is settled
ListReposOf(cfg, targetOrg, page, per_page, world) ==
  IF ~Truthy(targetOrg) /\ cfg.token = <<>>
  THEN Returned(NoOrgOrToken, TRUE, <<>>)
  ELSE ListReposResult(
         apiCall(cfg, GET,
                 IF Truthy(targetOrg)
                 THEN <<"/orgs/">> \o ToString(targetOrg) \o <<"/repos">>
                 ELSE <<"/user/repos">>,
                 NoData,
                 << [k |-> "page", x |-> page], [k |-> "per_page", x |-> per_page],
                    [k |-> "limit", x |-> per_page], [k |-> "type", x |-> Str(<<"all">>)] >>,
                 world))

list_repos(cfg, args, world) ==
  ListReposOf(cfg, OrElse(args.org, Str(cfg.owner)), Default(args.page, Num("1")),
              Default(args.per_page, Num("100")), world)

RepoEndpoint(args) ==
  <<"/repos/">> \o ToString(args.owner) \o <<"/">> \o ToString(args.repo)

GetRepoResult(rq) ==
  IF rq.threw THEN Thrown(rq.error, <<rq>>)
  ELSE Returned(JsonPretty(rq.value), FALSE, <<rq>>)

get_repo(cfg, args, world) ==
  GetRepoResult(apiCall(cfg, GET, RepoEndpoint(args), NoData, NoParams, world))

IssueLine(i) ==
  <<"#">> \o ToString(i["number"]) \o <<":", SP>> \o ToString(i["title"])
  \o <<SP, "[">> \o ToString(i["state"]) \o <<"]">>

IssueList(issues) == Join([i \in 1..Len(issues) |-> IssueLine(issues[i])], <<NL>>)

ListIssuesResult(rq) ==
  IF rq.threw THEN Thrown(rq.error, <<rq>>)
  ELSE IF rq.value.kind = "null" THEN Thrown(ErrTypeError("message"), <<rq>>)
  ELSE IF rq.value.kind # "array"
  THEN Returned(<<"Error:", SP>> \o MessageOrBody(rq.value), TRUE, <<rq>>)
  ELSE Returned(TextOr(IssueList(rq.value.items), NoIssues), FALSE, <<rq>>)

ListIssuesOf(cfg, args, state, page, per_page, world) ==
  ListIssuesResult(
    apiCall(cfg, GET, RepoEndpoint(args) \o <<"/issues">>, NoData,
            << [k |-> "state", x |-> state], [k |-> "page", x |-> page],
               [k |-> "per_page", x |-> per_page], [k |-> "limit", x |-> per_page] >>,
            world))

list_issues(cfg, args, world) ==
  ListIssuesOf(cfg, args, Default(args.state, Str(<<"open">>)),
               Default(args.page, Num("1")), Default(args.per_page, Num("20")), world)

\* an element of Array.prototype.join: null and undefined print as nothing
JoinText(x) == IF x.t \in {"undefined", "null"} THEN <<>> ELSE ToString(x)

BranchList(branches) ==
  Join([i \in 1..Len(branches) |-> JoinText(branches[i]["name"])], <<NL>>)

ListBranchesResult(rq) ==
  IF rq.threw THEN Thrown(rq.error, <<rq>>)
  ELSE IF rq.value.kind = "null" THEN Thrown(ErrTypeError("message"), <<rq>>)
  ELSE IF rq.value.kind # "array"
  THEN Returned(<<"Error:", SP>> \o MessageOrBody(rq.value), TRUE, <<rq>>)
  ELSE Returned(TextOr(BranchList(rq.value.items), NoBranches), FALSE, <<rq>>)

list_branches(cfg, args, world) ==
  ListBranchesResult(
    apiCall(cfg, GET, RepoEndpoint(args) \o <<"/branches">>, NoData, NoParams, world))

\* `Created <what> #${x.number}: ${x.title}\nURL: ${x.html_url}`
CreatedText(what, x) ==
  <<"Created", SP, what, SP, "#">> \o ToString(x["number"]) \o <<":", SP>>
  \o ToString(x["title"]) \o <<NL, "URL:", SP>> \o ToString(x["html_url"])

CreatedResult(what, rq) ==
  IF rq.threw THEN Thrown(rq.error, <<rq>>)
  ELSE IF rq.value.kind = "null" THEN Thrown(ErrTypeError("number"), <<rq>>)
  ELSE Returned(CreatedText(what, rq.value.obj), FALSE, <<rq>>)

create_issue(cfg, args, world) ==
  CreatedResult("issue",
    apiCall(cfg, POST, RepoEndpoint(args) \o <<"/issues">>,
            << [k |-> "title", x |-> args.title], [k |-> "body", x |-> args.body] >>,
            NoParams, world))

create_pull_request(cfg, args, world) ==
  CreatedResult("PR",
    apiCall(cfg, POST, RepoEndpoint(args) \o <<"/pulls">>,
            << [k |-> "title", x |-> args.title], [k |-> "head", x |-> args.head],
               [k |-> "base", x |-> Default(args.base, Str(<<"main">>))],
               [k |-> "body", x |-> args.body] >>,
            NoParams, world))

NotDetected == <<"not", SP, "detected">>

ConnectionInfo(cfg, gitConfig) ==
  << [k |-> "api_url", x |-> Str(cfg.apiUrl)],
     [k |-> "is_github", x |-> Bool(cfg.isGitHub)],
     [k |-> "authenticated", x |-> Bool(cfg.token # <<>>)],
     [k |-> "detected_owner", x |-> Str(cfg.owner)],
     [k |-> "detected_repo", x |-> Str(cfg.repo)],
     [k |-> "git_remote", x |-> Str(TextOr(gitConfig.remoteUrl, NotDetected))] >>

\* a variant that reports an undetected remote as an error
get_connection_info_strict(cfg, git) ==
  Returned(PrettyFields(ConnectionInfo(cfg, detectGitConfig(git)), <<>>),
           ~detectGitConfig(git).found, <<>>)

get_connection_info(cfg, git) ==
  Returned(PrettyFields(ConnectionInfo(cfg, detectGitConfig(git)), <<>>), FALSE, <<>>)

----------------------------------------------------------------------------
(* The tool registry: the schema each server.tool call declares *)

ArgNames ==
  {"org", "page", "per_page", "owner", "repo", "state", "title", "head", "base", "body"}

NoArgs == [a \in ArgNames |-> Undefined]

Tools ==
  {"list_repos", "get_repo", "list_issues", "list_branches", "create_issue",
   "create_pull_request", "get_connection_info"}

StateEnum == {<<"open">>, <<"closed">>, <<"all">>}

\* a variant that declares every argument an optional string
SchemaLoose(tool) ==
  [a \in ArgNames |-> "string?"]

\* the declared type of each argument of each tool; "none" where the tool
\* declares no such argument
Schema(tool) ==
  CASE tool = "list_repos" ->
         [a \in ArgNames |->
            CASE a = "org" -> "string?"
              [] a \in {"page", "per_page"} -> "number?"
              [] OTHER -> "none"]
    [] tool = "get_repo" ->
         [a \in ArgNames |-> IF a \in {"owner", "repo"} THEN "string" ELSE "none"]
    [] tool = "list_issues" ->
         [a \in ArgNames |->
            CASE a \in {"owner", "repo"} -> "string"
              [] a = "state" -> "enum?"
              [] a \in {"page", "per_page"} -> "number?"
              [] OTHER -> "none"]
    [] tool = "list_branches" ->
         [a \in ArgNames |-> IF a \in {"owner", "repo"} THEN "string" ELSE "none"]
    [] tool = "create_issue" ->
         [a \in ArgNames |->
            CASE a \in {"owner", "repo", "title"} -> "string"
              [] a = "body" -> "string?"
              [] OTHER -> "none"]
    [] tool = "create_pull_request" ->
         [a \in ArgNames |->
            CASE a \in {"owner", "repo", "title", "head"} -> "string"
              [] a \in {"base", "body"} -> "string?"
              [] OTHER -> "none"]
    [] OTHER -> [a \in ArgNames |-> "none"]

----------------------------------------------------------------------------
(* The dispatch boundary: the protocol library that receives a tool call,  *)
(* checks its arguments against the declared schema, runs the handler and  *)
(* turns what it throws into an error result.                              *)

\* whether a value passes a declared type
Accepts(type, x) ==
  CASE type = "string" -> x.t = "string"
    [] type = "string?" -> x.t \in {"string", "undefined"}
    [] type = "number?" -> x.t \in {"number", "undefined"}
    [] type = "enum?" -> x.t = "undefined" \/ (x.t = "string" /\ x.v \in StateEnum)
    [] OTHER -> TRUE

Valid(tool, args) == \A a \in ArgNames : Accepts(Schema(tool)[a], args[a])

\* the parsed arguments: an argument the schema does not declare is dropped
Parsed(tool, args) ==
  [a \in ArgNames |-> IF Schema(tool)[a] = "none" THEN Undefined ELSE args[a]]

ErrInvalidArgs == <<"Invalid", SP, "arguments">>

NoWorld == [status |-> "none", value |-> JNull]
NoGit == [threw |-> FALSE, out |-> <<"-">>]

\* the record of a call whose arguments the schema rejects: the handler is
\* not run
Rejected(tool, args) ==
  [tool |-> tool, args |-> args, git |-> NoGit, valid |-> FALSE, threw |-> FALSE,
   escaped |-> FALSE, reqs |-> <<>>, world |-> NoWorld,
   result |-> [isError |-> TRUE, text |-> ErrInvalidArgs]]

\* the record of a call whose handler ran and came to h: what it returned is
\* the result, what it threw becomes an error result
Handled(tool, args, world, git, h) ==
  [tool |-> tool, args |-> args, git |-> git, valid |-> TRUE, threw |-> h.threw,
   escaped |-> FALSE, reqs |-> h.reqs,
   world |-> IF h.reqs # <<>> THEN world ELSE NoWorld,
   result |-> IF h.threw THEN [isError |-> TRUE, text |-> h.error]
              ELSE [isError |-> h.isError, text |-> h.text]]

\* h is what the tool's handler comes to on the parsed arguments
Dispatch(tool, args, world, git, h) ==
  IF Valid(tool, args) THEN Handled(tool, args, world, git, h) ELSE Rejected(tool, args)

NoCall ==
  [tool |-> "none", args |-> NoArgs, git |-> NoGit, valid |-> FALSE, threw |-> FALSE,
   escaped |-> FALSE, reqs |-> <<>>, world |-> NoWorld,
   result |-> [isError |-> FALSE, text |-> <<>>]]

----------------------------------------------------------------------------
(* Callers' arguments *)

Plain == <<"acme">>
Widget == <<"widget">>
\* a tab: the shell splits an unquoted word there
WithTab == <<"a", TAB, "example.com">>
\* one apostrophe: the shell finds an unterminated quoted string
WithQuote == <<"o", SQ, "k">>
\* a quoted word: inside a quoted argument the shell drops the apostrophes
QuotedWord == <<"Fix", SP, SQ, "foo", SQ, SP, "bug">>
\* a quoted phrase: inside a quoted argument its space splits the argument
QuoteSplit == <<"say", SP, SQ, "a", SP, "b", SQ>>
WithSpace == <<"a", SP, "b">>
WithAmp == <<"a", AMP, "b">>

UserTexts == {Plain, WithTab, WithQuote, QuotedWord, QuoteSplit, WithSpace, WithAmp, <<>>}

ListReposArgs ==
  {[NoArgs EXCEPT !.org = o, !.page = p, !.per_page = q] :
     o \in {Undefined, Num("5")} \cup {Str(t) : t \in UserTexts},
     p \in {Undefined, Num("2"), Str(<<"2">>)},
     q \in {Undefined, Num("50")}}

RepoArgs ==
  {[NoArgs EXCEPT !.owner = o, !.repo = r] :
     o \in {Undefined} \cup {Str(t) : t \in UserTexts},
     r \in {Str(Widget), Num("1")}}

ListIssuesArgs ==
  {[NoArgs EXCEPT !.owner = o, !.repo = Str(Widget), !.state = s, !.page = p] :
     o \in {Undefined, Str(Plain), Str(WithTab)},
     s \in {Undefined, Num("1"), Str(<<"bogus">>)} \cup {Str(e) : e \in StateEnum},
     p \in {Undefined, Num("2")}}

CreateIssueArgs ==
  {[NoArgs EXCEPT !.owner = o, !.repo = Str(Widget), !.title = t, !.body = b] :
     o \in {Str(Plain), Num("1")},
     t \in {Undefined} \cup {Str(x) : x \in UserTexts},
     b \in {Undefined, Str(Plain), Str(WithQuote)}}

CreatePullArgs ==
  {[NoArgs EXCEPT !.owner = Str(Plain), !.repo = Str(Widget), !.title = t,
                  !.head = h, !.base = b, !.body = y] :
     t \in {Undefined, Str(Plain), Str(QuotedWord), Str(QuoteSplit), Str(WithTab)},
     h \in {Undefined, Str(<<"feature">>), Str(WithQuote)},
     b \in {Undefined, Num("1"), Str(<<"dev">>), Str(QuoteSplit)},
     y \in {Undefined, Str(Plain)}}

----------------------------------------------------------------------------
(* The server *)

Init ==
  /\ config \in Configs
  /\ server = "running"
  /\ last = NoCall

\* one tool call, from its arrival to the result the server has ready; a
\* fault that escapes the call ends the process
Settle(rec) ==
  /\ last' = rec
  /\ server' = IF rec.escaped THEN "exited" ELSE "running"
  /\ UNCHANGED config

Idle == server = "running" /\ last = NoCall

ListRepos ==
  /\ Idle
  /\ \E a \in ListReposArgs, w \in Worlds :
       Settle(Dispatch("list_repos", a, w, NoGit,
                       list_repos(config, Parsed("list_repos", a), w)))

GetRepo ==
  /\ Idle
  /\ \E a \in RepoArgs, w \in Worlds :
       Settle(Dispatch("get_repo", a, w, NoGit,
                       get_repo(config, Parsed("get_repo", a), w)))

ListIssues ==
  /\ Idle
  /\ \E a \in ListIssuesArgs, w \in Worlds :
       Settle(Dispatch("list_issues", a, w, NoGit,
                       list_issues(config, Parsed("list_issues", a), w)))

ListBranches ==
  /\ Idle
  /\ \E a \in RepoArgs, w \in Worlds :
       Settle(Dispatch("list_branches", a, w, NoGit,
                       list_branches(config, Parsed("list_branches", a), w)))

CreateIssue ==
  /\ Idle
  /\ \E a \in CreateIssueArgs, w \in Worlds :
       Settle(Dispatch("create_issue", a, w, NoGit,
                       create_issue(config, Parsed("create_issue", a), w)))

CreatePullRequest ==
  /\ Idle
  /\ \E a \in CreatePullArgs, w \in Worlds :
       Settle(Dispatch("create_pull_request", a, w, NoGit,
                       create_pull_request(config, Parsed("create_pull_request", a), w)))

GetConnectionInfo ==
  /\ Idle
  /\ \E g \in GitOutcomes :
       Settle(Dispatch("get_connection_info", NoArgs, NoWorld, g,
                       get_connection_info(config, g)))

\* the result is sent to the caller; nothing of the invocation is kept
Respond ==
  /\ last # NoCall
  /\ last' = NoCall
  /\ UNCHANGED <<config, server>>

Next ==
  \/ ListRepos
  \/ GetRepo
  \/ ListIssues
  \/ ListBranches
  \/ CreateIssue
  \/ CreatePullRequest
  \/ GetConnectionInfo
  \/ Respond

Spec == Init /\ [][Next]_vars

----------------------------------------------------------------------------
(* Properties.  `last` is the invocation the server has just handled: the  *)
(* arguments it was called with, the requests its handler made (`call` is  *)
(* what the handler asked curlRequest for, `wire` the requests the command *)
(* line made curl send) and the result that goes back to the caller.       *)

(* C1: list_repos called with no org argument (absent or empty), while the
   configuration has neither an owner nor a token, returns an error result
   whose one text block is the corrective message, and makes no request;
   whenever any of the three is non-empty the handler does make a request. *)
C1_ListReposConfigGap ==
  (last.tool = "list_repos" /\ last.valid) =>
    IF last.args.org \in {Undefined, Str(<<>>)} /\ config.owner = <<>> /\ config.token = <<>>
    THEN /\ last.result = [isError |-> TRUE, text |-> NoOrgOrToken]
         /\ last.reqs = <<>>
    ELSE Len(last.reqs) = 1

C1_Witness ==
  /\ last.tool = "list_repos" /\ last.valid
  /\ last.args.org = Undefined /\ config.owner = <<>> /\ config.token = <<>>
  /\ last.result.isError
  /\ last.reqs = <<>>

(* C2: when the parsed response of list_repos, list_issues or list_branches
   is not an array, the result is an error whose text contains the
   response's message when that is present and non-empty, and the serialized
   body otherwise; no success-formatted text is returned. *)
C2_NonArrayIsError ==
  ( /\ last.tool \in {"list_repos", "list_issues", "list_branches"}
    /\ last.reqs # <<>>
    /\ ~last.reqs[1].syntax
    /\ last.world.status = "json"
    /\ last.world.value.kind # "array" ) =>
      /\ last.result.isError
      /\ IncludesSeq(last.result.text,
                     IF Truthy(last.world.value.obj["message"])
                     THEN ToString(last.world.value.obj["message"])
                     ELSE JsonCompact(last.world.value))
      /\ last.result.text \notin {NoRepositories, NoIssues, NoBranches}
      /\ ~IsPrefix(<<"Found">>, last.result.text)

C2_Witness ==
  /\ last.tool = "list_issues"
  /\ last.reqs # <<>>
  /\ last.world = [status |-> "json", value |-> JObj(ErrObj)]
  /\ last.result = [isError |-> TRUE, text |-> <<"Error:", SP, "Not", SP, "Found">>]

(* C3: for every tool that calls the remote API, get_repo, create_issue and
   create_pull_request included, a response that is an object with a
   non-empty message and none of the fields of a resource gives an error
   result. *)
C3_ErrorObjectIsError ==
  ( /\ last.tool \in Tools \ {"get_connection_info"}
    /\ last.reqs # <<>>
    /\ ~last.reqs[1].syntax
    /\ last.world.status = "json"
    /\ last.world.value.kind = "object"
    /\ Truthy(last.world.value.obj["message"])
    /\ last.world.value.obj["number"] = Undefined
    /\ last.world.value.obj["full_name"] = Undefined ) =>
      last.result.isError

(* C4: a failure of the transport (the request process fails or exits
   non-zero, or its output is not JSON) gives the caller an error result
   carrying the failure's message; the failure does not escape the
   invocation and the server keeps running. *)
C4_TransportFailure ==
  ( /\ last.reqs # <<>>
    /\ (last.reqs[1].syntax \/ last.world.status \in {"failed", "garbage"}) ) =>
      /\ last.result.isError
      /\ last.result.text = IF last.reqs[1].syntax \/ last.world.status = "failed"
                            THEN ErrCommandFailed ELSE ErrJsonParse
      /\ ~last.escaped
      /\ server = "running"

C4_Witness ==
  /\ last.tool = "get_repo"
  /\ last.reqs # <<>>
  /\ last.world.status = "failed"
  /\ last.result = [isError |-> TRUE, text |-> ErrCommandFailed]
  /\ server = "running"

(* C5: every invocation sends at most one HTTP request; get_repo with a
   valid owner and repo sends exactly one, a GET to
   <apiUrl>/repos/{owner}/{repo}, and on success returns the parsed response
   pretty-printed, not as an error. *)
C5_OneRequest ==
  /\ Len(last.reqs) <= 1
  /\ \A i \in 1..Len(last.reqs) : Len(last.reqs[i].wire) <= 1
  /\ (last.tool = "get_repo" /\ last.valid) =>
       /\ Len(last.reqs) = 1
       /\ Len(last.reqs[1].wire) = 1
       /\ last.reqs[1].wire[1].method = GET
       /\ last.reqs[1].wire[1].url =
            config.apiUrl \o <<"/repos/">> \o last.args.owner.v \o <<"/">> \o last.args.repo.v
       /\ last.world.status = "json" =>
            last.result = [isError |-> FALSE, text |-> JsonPretty(last.world.value)]

(* C6: get_connection_info never returns an error result and never makes a
   request; when reading the git remote fails or the remote URL does not
   match, the payload's git_remote is "not detected". *)
C6_ConnectionInfo ==
  last.tool = "get_connection_info" =>
    /\ ~last.result.isError
    /\ last.reqs = <<>>
    /\ (last.git.threw \/ last.git.out = <<"git@host", ":", "widget", ".", "git">>) =>
         IncludesSeq(last.result.text,
                     <<DQ, "git_remote", DQ, ":", SP, DQ>> \o NotDetected \o <<DQ>>)

C6_Witness ==
  /\ last.tool = "get_connection_info"
  /\ last.git.threw
  /\ ~last.result.isError
  /\ IncludesSeq(last.result.text, NotDetected)

(* C7: an invocation whose arguments break the tool's declared schema (a
   required argument missing, an argument of the wrong type, a state outside
   open/closed/all) is rejected with an error result, and no request is
   made. *)
C7_InvalidArgsRejected ==
  LET Required ==
        CASE last.tool \in {"get_repo", "list_issues", "list_branches"} -> {"owner", "repo"}
          [] last.tool = "create_issue" -> {"owner", "repo", "title"}
          [] last.tool = "create_pull_request" -> {"owner", "repo", "title", "head"}
          [] OTHER -> {}
      Strings ==
        CASE last.tool = "list_repos" -> {"org"}
          [] last.tool = "create_issue" -> {"body"}
          [] last.tool = "create_pull_request" -> {"base", "body"}
          [] OTHER -> {}
      Numbers ==
        IF last.tool \in {"list_repos", "list_issues"} THEN {"page", "per_page"} ELSE {}
  IN ( /\ last.tool # "none"
       /\ \/ \E a \in Required : last.args[a].t # "string"
          \/ \E a \in Strings : last.args[a].t \notin {"string", "undefined"}
          \/ \E a \in Numbers : last.args[a].t \notin {"number", "undefined"}
          \/ /\ last.tool = "list_issues"
             /\ last.args.state # Undefined
             /\ last.args.state \notin {Str(e) : e \in StateEnum} ) =>
         /\ last.result.isError
         /\ last.reqs = <<>>

C7_Witness ==
  /\ last.tool = "list_issues"
  /\ last.args.owner = Str(Plain)
  /\ last.args.state = Str(<<"bogus">>)
  /\ last.result.isError
  /\ last.reqs = <<>>

(* C8: in every create_pull_request invocation the body of the POST sent to
   <apiUrl>/repos/{owner}/{repo}/pulls has the supplied base as its base
   field, "main" when none is supplied, and the title and head as supplied. *)
C8_PullRequestBody ==
  (last.tool = "create_pull_request" /\ last.valid) =>
    \A i \in 1..Len(last.reqs) : \A j \in 1..Len(last.reqs[i].wire) :
      ( /\ last.reqs[i].wire[j].method = POST
        /\ last.reqs[i].wire[j].url =
             config.apiUrl \o <<"/repos/">> \o last.args.owner.v \o <<"/">>
             \o last.args.repo.v \o <<"/pulls">> ) =>
          last.reqs[i].wire[j].data =
            JsonStringify(<< [k |-> "title", x |-> last.args.title],
                             [k |-> "head", x |-> last.args.head],
                             [k |-> "base", x |-> IF last.args.base = Undefined
                                                  THEN Str(<<"main">>) ELSE last.args.base],
                             [k |-> "body", x |-> last.args.body] >>)

(* C9: the configuration is resolved once and never changes, and every
   request the process sends uses its base URL, its token and its
   authorization scheme. *)
C9_SameConfiguration ==
  \A i \in 1..Len(last.reqs) : \A j \in 1..Len(last.reqs[i].wire) :
    /\ IsPrefix(config.apiUrl, last.reqs[i].wire[j].url)
    /\ \A h \in 1..Len(last.reqs[i].wire[j].headers) :
         last.reqs[i].wire[j].headers[h][1] = "Authorization:" =>
           last.reqs[i].wire[j].headers[h] =
             <<"Authorization:", SP, IF config.isGitHub THEN "Bearer" ELSE "token", SP>>
             \o config.token
    /\ config.token # <<>> =>
         \E h \in 1..Len(last.reqs[i].wire[j].headers) :
           last.reqs[i].wire[j].headers[h][1] = "Authorization:"

(* C10: when the response of list_repos is an array of N items, N = 0
   included, the text of the success result begins with "Found N
   repositories:" and is never "No repositories found."; list_issues and
   list_branches return "No issues found." and "No branches found." for an
   empty array. *)
C10_FoundPrefix ==
  ( /\ last.reqs # <<>>
    /\ ~last.reqs[1].syntax
    /\ last.world.status = "json"
    /\ last.world.value.kind = "array" ) =>
      /\ last.tool = "list_repos" =>
           /\ ~last.result.isError
           /\ IsPrefix(<<"Found", SP>> \o NumText(Len(last.world.value.items))
                       \o <<SP, "repositories:">>, last.result.text)
           /\ last.result.text # NoRepositories
      /\ (last.tool = "list_issues" /\ last.world.value.items = <<>>) =>
           last.result.text = NoIssues
      /\ (last.tool = "list_branches" /\ last.world.value.items = <<>>) =>
           last.result.text = NoBranches

C10_Witness ==
  /\ last.tool = "list_repos"
  /\ last.reqs # <<>>
  /\ last.world = [status |-> "json", value |-> JArr(<<>>)]
  /\ ~last.result.isError
  /\ IsPrefix(<<"Found", SP, "0", SP, "repositories:">>, last.result.text)

====
